---- MODULE Spec2Model ----
(***************************************************************************)
(* Model of service-worker.js (Calculadora de Funcion Diastolica): the     *)
(* install / activate lifecycle of one worker version, its fetch handler   *)
(* and the three caching strategies, over the Cache Storage of the origin. *)
(* Every await of the source is one step of the model; a promise that the  *)
(* source does not await (cache.put in the strategies, the background      *)
(* revalidation) is a pending operation that completes in a later step.    *)
(***************************************************************************)
EXTENDS Naturals, Sequences, FiniteSets

\* ------------------------------------------------------------------ bounds
\* Number of fetch events the worker handles in one run (each may still be
\* in flight, with its background work, while the next ones are handled).
MaxTasks == 2
\* Number of core assets install fetches (a prefix of CORE_ASSETS).
NumCore == 3
\* Number of distinct bodies the network may serve for one URL.
MaxBody == 2

\* --------------------------------------------------------------- constants
STATIC_CACHE == "df-static-v1.4.1"
FONTS_CACHE == "df-fonts-v1.4.1"
\* Partitions left behind by an earlier version of the worker.
StaleCaches == {"df-static-v1.4.0", "df-fonts-v1.4.0"}
CacheNames == {STATIC_CACHE, FONTS_CACHE} \cup StaleCaches

SELF_ORIGIN == "self"
FONTS_CSS_ORIGIN == "https://fonts.googleapis.com"
FONTS_BIN_ORIGIN == "https://fonts.gstatic.com"
OTHER_ORIGIN == "https://example.org"
Origins == {SELF_ORIGIN, FONTS_CSS_ORIGIN, FONTS_BIN_ORIGIN, OTHER_ORIGIN}

\* A path is <<name, extension as written>>; BASE_PATH is the scope "/".
BASE_PATH == <<"/", "">>
INDEX_HTML == <<"/index", "html">>
CORE_ASSETS ==
    << BASE_PATH,
       INDEX_HTML,
       <<"/manifest", "json">>,
       <<"/icons/icon-192", "png">>,
       <<"/icons/icon-512", "png">>,
       <<"/icons/icon-192-maskable", "png">>,
       <<"/icons/icon-512-maskable", "png">>,
       <<"/icons/apple-touch-icon-180", "png">>,
       <<"/icons/favicon-32", "png">>,
       <<"/icons/favicon-16", "png">>,
       <<"/icons/favicon", "ico">> >>
\* The assets install handles within the bound.
CoreIdx == 1..NumCore

\* ---------------------------------------------------------------- requests
\* A request is its mode and its URL (origin and path); the cache key of a
\* request is its URL (cache.match and cache.put ignore the mode).
Req(mode, origin, path) == [mode |-> mode, origin |-> origin, path |-> path]
Key(req) == <<req.origin, req.path>>
CoreKey(i) == <<SELF_ORIGIN, CORE_ASSETS[i]>>
ShellKey == <<SELF_ORIGIN, INDEX_HTML>>

\* The requests pages issue in the lifecycle specification: one or two of
\* each class of the fetch handler.
Requests ==
    { Req("navigate", SELF_ORIGIN, INDEX_HTML),
      Req("navigate", SELF_ORIGIN, BASE_PATH),
      Req("no-cors", FONTS_CSS_ORIGIN, <<"/css2", "">>),
      Req("no-cors", FONTS_BIN_ORIGIN, <<"/s/inter", "woff2">>),
      Req("no-cors", SELF_ORIGIN, <<"/manifest", "json">>),
      Req("cors", SELF_ORIGIN, <<"/api/data", "">>) }

Keys == {Key(r) : r \in Requests} \cup {CoreKey(i) : i \in CoreIdx}

\* --------------------------------------------------------------- responses
\* A response is its type, status and body.  Three values of the same shape
\* stand for "no response", a rejected promise and a request the handler
\* left to the browser.
Resp(type, status, body) == [type |-> type, status |-> status, body |-> body]
NoResp == Resp("none", 0, 0)
Rejected == Resp("error", 0, 0)
PassThrough == Resp("passthrough", 0, 0)
Offline503 == Resp("default", 503, 0)
Bodies == 1..MaxBody

IsResponse(r) == r.type \in {"basic", "opaque", "default"}
\* res.ok: the status is in 200..299
Ok(r) == r.status >= 200 /\ r.status <= 299
\* res && (res.ok || res.type === "opaque")
Storable(r) == IsResponse(r) /\ (Ok(r) \/ r.type = "opaque")

\* What the network can answer to a request, other than failing: a 200 with
\* some body, an error status, and for a cross-origin no-cors request an
\* opaque response.
NetResponses(req) ==
    {Resp("basic", 200, b) : b \in Bodies}
        \cup {Resp("basic", 404, 0)}
        \cup (IF req.origin # SELF_ORIGIN /\ req.mode = "no-cors"
              THEN {Resp("opaque", 0, b) : b \in Bodies} ELSE {})
\* Every outcome of fetch(req): a response or a rejection.
NetOutcomes(req) == NetResponses(req) \cup {Rejected}

\* ------------------------------------------------------------------- state
VARIABLES
    state,          \* lifecycle of this worker version
    skipWaitingBy,  \* the handlers that have called self.skipWaiting()
    skipMsgSeen,    \* a SKIP_WAITING message reached the waiting worker
    oldClients,     \* pages controlled by the previous version are open
    controlled,     \* this worker controls the open pages
    preloadEnabled, \* registration.navigationPreload is enabled
    cacheKeys,      \* caches.keys(): the partitions that exist
    store,          \* the entries of the two current partitions
    ipc,            \* position of the install handler
    asset,          \* addAllSafe: per core asset, its step and fetch outcome
    apc,            \* position of the activate handler
    keys,           \* activate: the result of caches.keys()
    pendingDeletes, \* activate: caches.delete(k) calls not yet completed
    tasks,          \* the fetch events handled, with their pending work
    oldTask         \* position of a handler of the previous version in flight

vars == << state, skipWaitingBy, skipMsgSeen, oldClients, controlled,
           preloadEnabled, cacheKeys, store, ipc, asset, apc, keys,
           pendingDeletes, tasks, oldTask >>

lifeVars == << state, skipWaitingBy, oldClients, controlled, preloadEnabled >>
installVars == << ipc, asset >>
activateVars == << apc, keys, pendingDeletes >>

CurrentCaches == {STATIC_CACHE, FONTS_CACHE}
EmptyCache == [k \in Keys |-> NoResp]
AssetPending == [st |-> "pending", res |-> NoResp]

\* cache.put(key, res) on partition name
CachePut(name, key, res) == [store EXCEPT ![name][key] = res]
\* cache.match(key) on partition name: the entry or NoResp (undefined)
CacheMatch(name, key) ==
    IF key \in DOMAIN store[name] THEN store[name][key] ELSE NoResp
\* caches.open(name): the partition exists afterwards
CachesOpen(name) == cacheKeys \cup {name}

\* A fetch event not yet dispatched.  Of a task: req is event.request; strat,
\* cache and revalidate are the strategy called and its arguments; pc is the
\* await the strategy is at; cached, net and net2 are the locals cached (or
\* fallback), the outcome of the first fetch and of the second one; resp is
\* what the page received and src where it came from; bg is the work still
\* running after the return; pre is what event.preloadResponse resolved to
\* and nfetch the number of fetch() calls the strategy has made.  prior and
\* hadEntry record, for the properties, whether at dispatch an earlier event
\* for the same request had been answered and whether the partition held an
\* entry for the request.
IdleTask ==
    [ req |-> Req("none", SELF_ORIGIN, BASE_PATH), strat |-> "none",
      cache |-> STATIC_CACHE, revalidate |-> FALSE, pc |-> "idle",
      cached |-> NoResp, net |-> NoResp, net2 |-> NoResp, resp |-> NoResp,
      src |-> "none", bg |-> "none", pre |-> NoResp, nfetch |-> 0,
      prior |-> FALSE, hadEntry |-> FALSE ]

\* The worker script has been evaluated and its install event is about to
\* be handled.  Partitions of any name may exist (left by earlier versions
\* or by an earlier registration); the two current ones hold no entry yet.
Init ==
    /\ state = "installing"
    /\ skipWaitingBy = {}
    /\ skipMsgSeen = FALSE
    /\ oldClients \in BOOLEAN
    /\ controlled = FALSE
    /\ preloadEnabled = FALSE
    /\ cacheKeys \in SUBSET CacheNames
    /\ store = [n \in CurrentCaches |-> EmptyCache]
    /\ ipc = "open"
    /\ asset = [i \in CoreIdx |-> AssetPending]
    /\ apc = "idle"
    /\ keys = {}
    /\ pendingDeletes = {}
    /\ tasks = [t \in 1..MaxTasks |-> IdleTask]
    /\ oldTask = "none"

\* ----------------------------------------------------------------- install
\* install handler: const cache = await caches.open(STATIC_CACHE)
InstallOpen ==
    /\ state = "installing" /\ ipc = "open"
    /\ cacheKeys' = CachesOpen(STATIC_CACHE)
    /\ ipc' = "adding"
    /\ UNCHANGED << lifeVars, skipMsgSeen, store, asset, activateVars, tasks, oldTask >>

\* Variant of AssetAfterFetch that puts every response, whatever its status.
AssetAfterFetchAnyStatus(out) ==
    IF IsResponse(out) THEN [st |-> "putting", res |-> out]
    ELSE [st |-> "done", res |-> out]

\* Variant of AssetAfterFetch in which a rejected fetch is not caught: the
\* url never settles as done.
AssetAfterFetchUncaught(out) ==
    IF Storable(out) THEN [st |-> "putting", res |-> out]
    ELSE IF out = Rejected THEN [st |-> "failed", res |-> out]
    ELSE [st |-> "done", res |-> out]

\* addAllSafe, one url: what becomes of the outcome of fetch(req).  A
\* rejection is caught; a response is put only if it is ok or opaque.
AssetAfterFetch(out) ==
    IF Storable(out) THEN [st |-> "putting", res |-> out]
    ELSE [st |-> "done", res |-> out]

\* addAllSafe, one url: const res = await fetch(req)
AssetFetch(i) ==
    /\ state = "installing" /\ ipc = "adding"
    /\ asset[i].st = "pending"
    /\ \E out \in NetOutcomes(Req("same-origin", SELF_ORIGIN, CORE_ASSETS[i])) :
           asset' = [asset EXCEPT ![i] = AssetAfterFetch(out)]
    /\ UNCHANGED << lifeVars, skipMsgSeen, cacheKeys, store, ipc, activateVars, tasks, oldTask >>

\* addAllSafe, one url: await cache.put(req, res.clone())
AssetPut(i) ==
    /\ state = "installing" /\ ipc = "adding"
    /\ asset[i].st = "putting"
    /\ store' = CachePut(STATIC_CACHE, CoreKey(i), asset[i].res)
    /\ asset' = [asset EXCEPT ![i].st = "done"]
    /\ UNCHANGED << lifeVars, skipMsgSeen, cacheKeys, ipc, activateVars, tasks, oldTask >>

\* Variant of InstallSkipWaiting that leaves activation to the browser.
InstallWithoutSkipWaiting == skipWaitingBy

\* What the install handler does once Promise.all has settled: it calls
\* self.skipWaiting().
InstallSkipWaiting == skipWaitingBy \cup {"install"}

\* install handler, after await addAllSafe(...): self.skipWaiting(), and the
\* promise given to waitUntil fulfils: the worker is installed.
InstallFinish ==
    /\ state = "installing" /\ ipc = "adding"
    /\ \A i \in CoreIdx : asset[i].st = "done"
    /\ skipWaitingBy' = InstallSkipWaiting
    /\ ipc' = "done"
    /\ state' = "installed"
    /\ UNCHANGED << skipMsgSeen, oldClients, controlled, preloadEnabled,
                    cacheKeys, store, asset, activateVars, tasks, oldTask >>

\* A page posts a message to the waiting worker.  The script registers no
\* "message" listener: the event is dispatched and nothing handles it.
MessageEvent(m) ==
    /\ state = "installed"
    /\ skipMsgSeen' = (skipMsgSeen \/ m = "SKIP_WAITING")
    /\ UNCHANGED << lifeVars, cacheKeys, store, installVars, activateVars, tasks, oldTask >>

\* The last page controlled by the previous version closes.
OldPagesClose ==
    /\ oldClients /\ ~controlled
    /\ oldClients' = FALSE
    /\ UNCHANGED << state, skipWaitingBy, skipMsgSeen, controlled, preloadEnabled,
                    cacheKeys, store, installVars, activateVars, tasks, oldTask >>

\* ---------------------------------------------------------------- activate
\* The browser activates a waiting worker once no page uses the previous
\* version, or at once when skipWaiting() has been called.  The activate
\* handler starts; the locals of the install handler are gone.
ActivateStart ==
    /\ state = "installed"
    /\ (skipWaitingBy # {} \/ ~oldClients)
    /\ state' = "activating"
    /\ apc' = "keys"
    /\ asset' = [i \in CoreIdx |-> AssetPending]
    /\ UNCHANGED << skipWaitingBy, skipMsgSeen, oldClients, controlled,
                    preloadEnabled, cacheKeys, store, ipc, keys, pendingDeletes, tasks, oldTask >>

\* Variant of StaleFilter that also spares the font partition of the
\* previous version.
StaleFilterKeepsOldFonts(ks) ==
    {k \in ks : k # STATIC_CACHE /\ k # FONTS_CACHE /\ k # "df-fonts-v1.4.0"}

\* Variant of StaleFilter that spares the static partition only.
StaleFilterStaticOnly(ks) == {k \in ks : k # STATIC_CACHE}

\* keys.filter(k => k !== STATIC_CACHE && k !== FONTS_CACHE)
StaleFilter(ks) == {k \in ks : k # STATIC_CACHE /\ k # FONTS_CACHE}

\* const keys = await caches.keys(); the filtered deletes are all started
ActivateKeys ==
    /\ state = "activating" /\ apc = "keys"
    /\ keys' = cacheKeys
    /\ pendingDeletes' = StaleFilter(cacheKeys)
    /\ apc' = "deleting"
    /\ UNCHANGED << lifeVars, skipMsgSeen, cacheKeys, store, installVars, tasks, oldTask >>

\* caches.delete(k): partition k and its entries are gone
CachesDelete(k) == cacheKeys \ {k}

\* one caches.delete(k) of the Promise.all completes
ActivateDelete(k) ==
    /\ state = "activating" /\ apc = "deleting"
    /\ k \in pendingDeletes
    /\ cacheKeys' = CachesDelete(k)
    /\ store' = [n \in CurrentCaches |-> IF n = k THEN EmptyCache ELSE store[n]]
    /\ pendingDeletes' = pendingDeletes \ {k}
    /\ UNCHANGED << lifeVars, skipMsgSeen, installVars, apc, keys, tasks, oldTask >>

\* Variant of ActivatePreload that does not await the deletes.
ActivatePreloadNoAwait ==
    /\ state = "activating" /\ apc = "deleting"
    /\ preloadEnabled' \in BOOLEAN
    /\ apc' = "claim"
    /\ UNCHANGED << state, skipWaitingBy, skipMsgSeen, oldClients, controlled,
                    cacheKeys, store, installVars, keys, pendingDeletes, tasks, oldTask >>

\* await Promise.all(...) resumes; navigationPreload.enable() where the
\* browser has it (enabled), a missing feature or a throw is ignored.
ActivatePreload ==
    /\ state = "activating" /\ apc = "deleting"
    /\ pendingDeletes = {}
    /\ preloadEnabled' \in BOOLEAN
    /\ apc' = "claim"
    /\ UNCHANGED << state, skipWaitingBy, skipMsgSeen, oldClients, controlled,
                    cacheKeys, store, installVars, keys, pendingDeletes, tasks, oldTask >>

\* await self.clients.claim(): every open page in scope is now controlled
ActivateClaim ==
    /\ state = "activating" /\ apc = "claim"
    /\ controlled' = TRUE
    /\ oldClients' = FALSE
    /\ apc' = "reload"
    /\ UNCHANGED << state, skipWaitingBy, skipMsgSeen, preloadEnabled,
                    cacheKeys, store, installVars, keys, pendingDeletes, tasks, oldTask >>

\* clients.matchAll(...) and client.navigate(client.url) for each window;
\* the handler's promise fulfils.
ActivateReload ==
    /\ state = "activating" /\ apc = "reload"
    /\ apc' = "done"
    /\ UNCHANGED << lifeVars, skipMsgSeen, cacheKeys, store, installVars,
                    keys, pendingDeletes, tasks, oldTask >>

\* The promise given to waitUntil has fulfilled: the worker is activated,
\* and fetch events of the controlled pages are dispatched to it.
ActivateFinish ==
    /\ state = "activating" /\ apc = "done"
    /\ state' = "activated"
    /\ apc' = "idle"
    /\ keys' = {}
    /\ UNCHANGED << skipWaitingBy, skipMsgSeen, oldClients, controlled,
                    preloadEnabled, cacheKeys, store, installVars, pendingDeletes, tasks, oldTask >>

Lifecycle ==
    \/ InstallOpen
    \/ \E i \in CoreIdx : AssetFetch(i)
    \/ \E i \in CoreIdx : AssetPut(i)
    \/ InstallFinish
    \/ \E m \in {"SKIP_WAITING", "OTHER"} : MessageEvent(m)
    \/ OldPagesClose
    \/ ActivateStart
    \/ ActivateKeys
    \/ \E k \in CacheNames : ActivateDelete(k)
    \/ ActivatePreload
    \/ ActivateClaim
    \/ ActivateReload
    \/ ActivateFinish

\* ------------------------------------------------------------ fetch handler
\* /\.(?:css|js|mjs|png|jpg|jpeg|webp|svg|ico|gif|json|txt|woff2?)$/
StaticExts ==
    {"css", "js", "mjs", "png", "jpg", "jpeg", "webp", "svg", "ico", "gif",
     "json", "txt", "woff", "woff2"}
\* the i flag of the pattern: the extension is compared in lower case
Lower(ext) ==
    CASE ext = "JS" -> "js"
      [] ext = "Json" -> "json"
      [] ext = "PNG" -> "png"
      [] OTHER -> ext
\* the pattern tested on url.pathname
IsStaticPath(path) == Lower(path[2]) \in StaticExts

Route(strat, cache, revalidate) ==
    [strat |-> strat, cache |-> cache, revalidate |-> revalidate]

\* Variant of Classify that keeps webfont binaries in the static partition.
ClassifyFontBinariesInStatic(req) ==
    IF req.mode = "navigate"
    THEN Route("networkFirstHTML", STATIC_CACHE, FALSE)
    ELSE IF req.origin = FONTS_CSS_ORIGIN
    THEN Route("staleWhileRevalidate", FONTS_CACHE, FALSE)
    ELSE IF req.origin = FONTS_BIN_ORIGIN
    THEN Route("cacheFirst", STATIC_CACHE, FALSE)
    ELSE IF req.origin = SELF_ORIGIN /\ IsStaticPath(req.path)
    THEN Route("cacheFirst", STATIC_CACHE, TRUE)
    ELSE Route("passThrough", STATIC_CACHE, FALSE)

\* Variant of Classify that tests the webfont origins before the mode.
ClassifyOriginFirst(req) ==
    IF req.origin = FONTS_CSS_ORIGIN
    THEN Route("staleWhileRevalidate", FONTS_CACHE, FALSE)
    ELSE IF req.origin = FONTS_BIN_ORIGIN
    THEN Route("cacheFirst", FONTS_CACHE, FALSE)
    ELSE IF req.mode = "navigate"
    THEN Route("networkFirstHTML", STATIC_CACHE, FALSE)
    ELSE IF req.origin = SELF_ORIGIN /\ IsStaticPath(req.path)
    THEN Route("cacheFirst", STATIC_CACHE, TRUE)
    ELSE Route("passThrough", STATIC_CACHE, FALSE)

\* The fetch listener: the strategy, partition and options a request gets.
Classify(req) ==
    IF req.mode = "navigate"
    THEN Route("networkFirstHTML", STATIC_CACHE, FALSE)
    ELSE IF req.origin = FONTS_CSS_ORIGIN
    THEN Route("staleWhileRevalidate", FONTS_CACHE, FALSE)
    ELSE IF req.origin = FONTS_BIN_ORIGIN
    THEN Route("cacheFirst", FONTS_CACHE, FALSE)
    ELSE IF req.origin = SELF_ORIGIN /\ IsStaticPath(req.path)
    THEN Route("cacheFirst", STATIC_CACHE, TRUE)
    ELSE Route("passThrough", STATIC_CACHE, FALSE)

\* The task of a fetch event as its listener returns: a strategy has been
\* called and runs to its first await, or no respondWith was called.
Dispatch(req) ==
    LET r == Classify(req) IN
    [ IdleTask EXCEPT
        !.req = req, !.strat = r.strat, !.cache = r.cache,
        !.revalidate = r.revalidate,
        !.pc = CASE r.strat = "networkFirstHTML" -> "preload"
                 [] r.strat = "passThrough" -> "done"
                 [] OTHER -> "open",
        !.resp = IF r.strat = "passThrough" THEN PassThrough ELSE NoResp,
        !.src = IF r.strat = "passThrough" THEN "browser" ELSE "none" ]

taskFrame == << lifeVars, skipMsgSeen, installVars, activateVars, oldTask >>

\* A controlled page issues a request: the fetch event is dispatched to the
\* activated worker.  Events take the task slots in order.
FetchEvent(t, req) ==
    /\ state = "activated"
    /\ tasks[t].pc = "idle"
    /\ \A u \in 1..MaxTasks : u < t => tasks[u].pc # "idle"
    /\ tasks' = [tasks EXCEPT ![t] =
                    [ Dispatch(req) EXCEPT
                        !.prior = \E u \in 1..MaxTasks :
                                      /\ tasks[u].req = req
                                      /\ IsResponse(tasks[u].resp),
                        !.hadEntry = CacheMatch(Classify(req).cache, Key(req)) # NoResp ]]
    /\ UNCHANGED << taskFrame, cacheKeys, store >>

\* ----------------------------------------------- cacheFirst / staleWhileRevalidate
\* const cache = await caches.open(cacheName)
StrategyOpen(t) ==
    /\ tasks[t].pc = "open"
    /\ cacheKeys' = CachesOpen(tasks[t].cache)
    /\ tasks' = [tasks EXCEPT ![t].pc = "match"]
    /\ UNCHANGED << taskFrame, store >>

\* Variant of CacheFirstAfterMatch that returns the cached value only when no
\* revalidation is asked for, and otherwise waits for the network.
CacheFirstNetworkWhenRevalidating(task, cached) ==
    IF cached # NoResp /\ ~task.revalidate
    THEN [ task EXCEPT !.cached = cached, !.resp = cached, !.src = "cache",
                       !.pc = "done" ]
    ELSE [ task EXCEPT !.pc = "fetch", !.nfetch = 1 ]

\* Variant of CacheFirstAfterMatch that awaits the revalidating fetch before
\* it returns.
CacheFirstAwaitsRevalidation(task, cached) ==
    IF cached # NoResp
    THEN IF task.revalidate
         THEN [ task EXCEPT !.cached = cached, !.pc = "fetch", !.nfetch = 1 ]
         ELSE [ task EXCEPT !.cached = cached, !.resp = cached,
                            !.src = "cache", !.pc = "done" ]
    ELSE [ task EXCEPT !.pc = "fetch", !.nfetch = 1 ]

\* cacheFirst after const cached = await cache.match(request)
CacheFirstAfterMatch(task, cached) ==
    IF cached # NoResp
    THEN [ task EXCEPT !.cached = cached, !.resp = cached, !.src = "cache",
                       !.pc = "done",
                       !.bg = IF task.revalidate THEN "fetch" ELSE "none",
                       !.nfetch = IF task.revalidate THEN 1 ELSE 0 ]
    ELSE [ task EXCEPT !.pc = "fetch", !.nfetch = 1 ]

\* Variant of SwrAfterMatch that prefers the network: the cached value is
\* kept but the fetch is awaited first.
SwrNetworkFirst(task, cached) ==
    [ task EXCEPT !.cached = cached, !.pc = "fetch", !.nfetch = 1 ]

\* staleWhileRevalidate after const cached = await cache.match(request): the
\* network fetch is started either way; a cached value is returned at once.
SwrAfterMatch(task, cached) ==
    IF cached # NoResp
    THEN [ task EXCEPT !.cached = cached, !.resp = cached, !.src = "cache",
                       !.pc = "done", !.bg = "fetch", !.nfetch = 1 ]
    ELSE [ task EXCEPT !.pc = "fetch", !.nfetch = 1 ]

\* const cached = await cache.match(request)
StrategyMatch(t) ==
    /\ tasks[t].pc = "match"
    /\ LET cached == CacheMatch(tasks[t].cache, Key(tasks[t].req)) IN
       tasks' = [tasks EXCEPT ![t] =
                    IF tasks[t].strat = "cacheFirst"
                    THEN CacheFirstAfterMatch(tasks[t], cached)
                    ELSE SwrAfterMatch(tasks[t], cached)]
    /\ UNCHANGED << taskFrame, cacheKeys, store >>

\* Variant of CacheFirstAfterFetch that puts every response, whatever its
\* status.
CacheFirstPutAnyStatus(task, out) ==
    IF out = Rejected
    THEN [ task EXCEPT !.net = out, !.resp = Rejected, !.src = "net",
                       !.pc = "done" ]
    ELSE [ task EXCEPT !.net = out, !.resp = out, !.src = "net", !.pc = "done",
                       !.bg = "put" ]

\* cacheFirst on a miss, after const res = await fetch(request): a rejection
\* propagates; a response is returned, and put first (not awaited) when it
\* is ok or opaque.
CacheFirstAfterFetch(task, out) ==
    IF out = Rejected
    THEN [ task EXCEPT !.net = out, !.resp = Rejected, !.src = "net",
                       !.pc = "done" ]
    ELSE [ task EXCEPT !.net = out, !.resp = out, !.src = "net", !.pc = "done",
                       !.bg = IF Storable(out) THEN "put" ELSE "none" ]

\* Variant of SwrAfterFetch whose then callback puts nothing.
SwrAfterFetchWithoutPut(task, out) ==
    IF out = Rejected
    THEN [ task EXCEPT !.net = out, !.pc = "final",
                       !.nfetch = task.nfetch + 1 ]
    ELSE [ task EXCEPT !.net = out, !.resp = out, !.src = "net", !.pc = "done" ]

\* staleWhileRevalidate on a miss, after await networkFetch: the then
\* callback has put an ok or opaque response (not awaited) and the response
\* is returned; a rejection became null and a second fetch is made.
SwrAfterFetch(task, out) ==
    IF out = Rejected
    THEN [ task EXCEPT !.net = out, !.pc = "final",
                       !.nfetch = task.nfetch + 1 ]
    ELSE [ task EXCEPT !.net = out, !.resp = out, !.src = "net", !.pc = "done",
                       !.bg = IF Storable(out) THEN "put" ELSE "none" ]

\* the awaited fetch(request) of a miss settles
StrategyFetch(t) ==
    /\ tasks[t].pc = "fetch"
    /\ tasks[t].strat \in {"cacheFirst", "staleWhileRevalidate"}
    /\ \E out \in NetOutcomes(tasks[t].req) :
           tasks' = [tasks EXCEPT ![t] =
                        IF tasks[t].strat = "cacheFirst"
                        THEN CacheFirstAfterFetch(tasks[t], out)
                        ELSE SwrAfterFetch(tasks[t], out)]
    /\ UNCHANGED << taskFrame, cacheKeys, store >>

\* staleWhileRevalidate: ... || fetch(request), returned as it settles
SwrFinalFetch(t) ==
    /\ tasks[t].pc = "final"
    /\ \E out \in NetOutcomes(tasks[t].req) :
           tasks' = [tasks EXCEPT ![t].net2 = out, ![t].resp = out,
                                  ![t].src = "final", ![t].pc = "done"]
    /\ UNCHANGED << taskFrame, cacheKeys, store >>

\* Variant of AfterBackgroundFetch that puts every response, whatever its
\* status.
AfterBackgroundFetchPutAny(task, out) ==
    [ task EXCEPT !.net = out,
                  !.bg = IF IsResponse(out) THEN "put" ELSE "dropped" ]

\* The then callback of a background fetch (cacheFirst with revalidate, or
\* staleWhileRevalidate on a hit): an ok or opaque response is put, anything
\* else, and a rejection, is dropped.
AfterBackgroundFetch(task, out) ==
    [ task EXCEPT !.net = out,
                  !.bg = IF Storable(out) THEN "put" ELSE "dropped" ]

\* the background fetch(request) settles, after the cached value was returned
BackgroundFetch(t) ==
    /\ tasks[t].bg = "fetch"
    /\ \E out \in NetOutcomes(tasks[t].req) :
           tasks' = [tasks EXCEPT ![t] = AfterBackgroundFetch(tasks[t], out)]
    /\ UNCHANGED << taskFrame, cacheKeys, store >>

\* a cache.put(request, res.clone()) that nobody awaits completes
PutComplete(t) ==
    /\ tasks[t].bg = "put"
    /\ store' = CachePut(tasks[t].cache, Key(tasks[t].req), tasks[t].net)
    /\ tasks' = [tasks EXCEPT ![t].bg = "stored"]
    /\ UNCHANGED << taskFrame, cacheKeys >>

\* -------------------------------------------------------- networkFirstHTML
\* What event.preloadResponse can settle to: undefined, and with navigation
\* preload enabled a response of the network or a rejection.
PreloadOutcomes(req) ==
    {NoResp} \cup (IF preloadEnabled THEN NetOutcomes(req) ELSE {})

\* Variant of NavAfterPreload that goes to the network whenever the preload
\* did not reject, and keeps the preload response aside.
NavFetchDespitePreload(task, out) ==
    IF out = Rejected THEN [ task EXCEPT !.pre = out, !.pc = "catchOpen" ]
    ELSE [ task EXCEPT !.pre = out, !.pc = "fetch", !.nfetch = 1 ]

\* after const preload = await event.preloadResponse
NavAfterPreload(task, out) ==
    IF out = Rejected THEN [ task EXCEPT !.pre = out, !.pc = "catchOpen" ]
    ELSE IF out # NoResp
    THEN [ task EXCEPT !.pre = out, !.resp = out, !.src = "preload",
                       !.pc = "done" ]
    ELSE [ task EXCEPT !.pc = "fetch", !.nfetch = 1 ]

\* const preload = await event.preloadResponse
NavPreload(t) ==
    /\ tasks[t].pc = "preload"
    /\ \E out \in PreloadOutcomes(tasks[t].req) :
           tasks' = [tasks EXCEPT ![t] = NavAfterPreload(tasks[t], out)]
    /\ UNCHANGED << taskFrame, cacheKeys, store >>

\* Variant of NavAfterFetch that fetches once more after a first failure.
NavRetryOnce(task, out) ==
    IF out = Rejected
    THEN IF task.nfetch < 2
         THEN [ task EXCEPT !.nfetch = task.nfetch + 1 ]
         ELSE [ task EXCEPT !.net = out, !.pc = "catchOpen" ]
    ELSE [ task EXCEPT !.net = out, !.pc = "netOpen" ]

\* after const netRes = await fetch(event.request, { cache: "no-store" })
NavAfterFetch(task, out) ==
    IF out = Rejected THEN [ task EXCEPT !.net = out, !.pc = "catchOpen" ]
    ELSE [ task EXCEPT !.net = out, !.pc = "netOpen" ]

\* const netRes = await fetch(event.request, { cache: "no-store" })
NavFetch(t) ==
    /\ tasks[t].pc = "fetch"
    /\ tasks[t].strat = "networkFirstHTML"
    /\ \E out \in NetOutcomes(tasks[t].req) :
           tasks' = [tasks EXCEPT ![t] = NavAfterFetch(tasks[t], out)]
    /\ UNCHANGED << taskFrame, cacheKeys, store >>

\* Variant of NavPutAndReturn that returns netRes without calling cache.put.
NavReturnWithoutPut(task) ==
    [ task EXCEPT !.resp = task.net, !.src = "net", !.pc = "done" ]

\* after const cache = await caches.open(STATIC_CACHE):
\* cache.put(event.request, netRes.clone()) is called, not awaited, and
\* netRes is returned
NavPutAndReturn(task) ==
    [ task EXCEPT !.resp = task.net, !.src = "net", !.pc = "done", !.bg = "put" ]

\* const cache = await caches.open(STATIC_CACHE); cache.put(...); return netRes
NavOpenPut(t) ==
    /\ tasks[t].pc = "netOpen"
    /\ cacheKeys' = CachesOpen(STATIC_CACHE)
    /\ tasks' = [tasks EXCEPT ![t] = NavPutAndReturn(tasks[t])]
    /\ UNCHANGED << taskFrame, store >>

\* catch: const cache = await caches.open(STATIC_CACHE)
NavCatchOpen(t) ==
    /\ tasks[t].pc = "catchOpen"
    /\ cacheKeys' = CachesOpen(STATIC_CACHE)
    /\ tasks' = [tasks EXCEPT ![t].pc = "catchMatch"]
    /\ UNCHANGED << taskFrame, store >>

\* return fallback || new Response("Offline", { status: 503, ... })
NavFallback(task, fallback) ==
    IF fallback # NoResp
    THEN [ task EXCEPT !.cached = fallback, !.resp = fallback,
                       !.src = "fallback", !.pc = "done" ]
    ELSE [ task EXCEPT !.resp = Offline503, !.src = "synthetic", !.pc = "done" ]

\* catch: const fallback = await cache.match(INDEX_HTML); return ...
NavCatchMatch(t) ==
    /\ tasks[t].pc = "catchMatch"
    /\ tasks' = [tasks EXCEPT ![t] =
                    NavFallback(tasks[t], CacheMatch(STATIC_CACHE, ShellKey))]
    /\ UNCHANGED << taskFrame, cacheKeys, store >>

Fetching ==
    \/ \E t \in 1..MaxTasks, req \in Requests : FetchEvent(t, req)
    \/ \E t \in 1..MaxTasks : StrategyOpen(t)
    \/ \E t \in 1..MaxTasks : StrategyMatch(t)
    \/ \E t \in 1..MaxTasks : StrategyFetch(t)
    \/ \E t \in 1..MaxTasks : SwrFinalFetch(t)
    \/ \E t \in 1..MaxTasks : BackgroundFetch(t)
    \/ \E t \in 1..MaxTasks : PutComplete(t)
    \/ \E t \in 1..MaxTasks : NavPreload(t)
    \/ \E t \in 1..MaxTasks : NavFetch(t)
    \/ \E t \in 1..MaxTasks : NavOpenPut(t)
    \/ \E t \in 1..MaxTasks : NavCatchOpen(t)
    \/ \E t \in 1..MaxTasks : NavCatchMatch(t)

\* The install and activate events alone: the worker up to the point where it
\* is activated, before any fetch event.
LifecycleSpec == Init /\ [][Lifecycle]_vars

Next == Lifecycle \/ Fetching

Spec == Init /\ [][Next]_vars

\* ------------------------------------------------- classification in isolation
\* Every request shape the fetch listener tells apart: each mode and origin
\* with each kind of path, the overlaps of the rules included.
AllPaths ==
    { BASE_PATH, INDEX_HTML, <<"/manifest", "json">>, <<"/APP", "JS">>,
      <<"/s/inter", "woff2">>, <<"/notes", "jsx">>, <<"/api/data", "">> }
AllRequests ==
    { Req(m, o, p) : m \in {"navigate", "no-cors", "cors"}, o \in Origins,
                     p \in AllPaths }

\* An activated worker whose install stored nothing, before any fetch event.
ClassifyInit ==
    /\ state = "activated"
    /\ skipWaitingBy = {"install"}
    /\ skipMsgSeen = FALSE
    /\ oldClients = FALSE
    /\ controlled = TRUE
    /\ preloadEnabled = FALSE
    /\ cacheKeys = {STATIC_CACHE}
    /\ store = [n \in CurrentCaches |-> EmptyCache]
    /\ ipc = "done"
    /\ asset = [i \in CoreIdx |-> AssetPending]
    /\ apc = "idle"
    /\ keys = {}
    /\ pendingDeletes = {}
    /\ tasks = [t \in 1..MaxTasks |-> IdleTask]
    /\ oldTask = "none"

\* The fetch listener alone, on every request shape.
ClassifyNext == \E t \in 1..MaxTasks, req \in AllRequests : FetchEvent(t, req)

ClassifySpec == ClassifyInit /\ [][ClassifyNext]_vars

\* ------------------------------------------ a handler of the previous version
\* The static partition of the version this one replaces: the same script
\* with the VERSION before.
PREV_STATIC_CACHE == "df-static-v1.4.0"

\* As Init, with a navigation of a page of the previous version in flight in
\* that version's worker: its networkFirstHTML awaits the network.
VersionsInit ==
    /\ state = "installing"
    /\ skipWaitingBy = {}
    /\ skipMsgSeen = FALSE
    /\ oldClients \in BOOLEAN
    /\ controlled = FALSE
    /\ preloadEnabled = FALSE
    /\ cacheKeys \in SUBSET CacheNames
    /\ store = [n \in CurrentCaches |-> EmptyCache]
    /\ ipc = "open"
    /\ asset = [i \in CoreIdx |-> AssetPending]
    /\ apc = "idle"
    /\ keys = {}
    /\ pendingDeletes = {}
    /\ tasks = [t \in 1..MaxTasks |-> IdleTask]
    /\ oldTask = "fetch"

\* previous version, networkFirstHTML: the awaited preload or fetch settles;
\* the try branch and the catch branch both open the static partition next
OldNavFetch ==
    /\ oldTask = "fetch"
    /\ oldTask' = "open"
    /\ UNCHANGED << lifeVars, skipMsgSeen, cacheKeys, store, installVars,
                    activateVars, tasks >>

\* previous version: const cache = await caches.open(STATIC_CACHE), which
\* creates the partition of that version when it does not exist
OldNavOpen ==
    /\ oldTask = "open"
    /\ cacheKeys' = CachesOpen(PREV_STATIC_CACHE)
    /\ oldTask' = "done"
    /\ UNCHANGED << lifeVars, skipMsgSeen, store, installVars, activateVars,
                    tasks >>

OldWorker == OldNavFetch \/ OldNavOpen

\* Install and activation of this version while the handler of the previous
\* version runs on.
VersionsSpec == VersionsInit /\ [][Lifecycle \/ OldWorker]_vars

\* ------------------------------------------------------- the host's scheduling
\* The steps the browser takes by itself: every promise the handlers await
\* settles, and a worker that may be activated is activated.  Messages of
\* pages and the closing of pages are left to the user.
HostStep ==
    \/ InstallOpen
    \/ \E i \in CoreIdx : AssetFetch(i)
    \/ \E i \in CoreIdx : AssetPut(i)
    \/ InstallFinish
    \/ ActivateStart
    \/ ActivateKeys
    \/ \E k \in CacheNames : ActivateDelete(k)
    \/ ActivatePreload
    \/ ActivateClaim
    \/ ActivateReload
    \/ ActivateFinish

\* The install and activate events under a host that keeps taking its steps.
FairLifecycleSpec == Init /\ [][Lifecycle]_vars /\ WF_vars(HostStep)

\* -------------------------------------------------------------- properties
TaskIds == 1..MaxTasks
Answered(t) == tasks[t].resp # NoResp
IsNav(t) == tasks[t].strat = "networkFirstHTML"
IsSwr(t) == tasks[t].strat = "staleWhileRevalidate"
IsCacheFirst(t) == tasks[t].strat = "cacheFirst"
\* the strategy found an entry / found none and went to the network
Hit(t) == tasks[t].cached # NoResp
PutIssued(t) == tasks[t].bg \in {"put", "stored"}

\* C1 as stated: whenever a navigation is answered with a response of the
\* network (live fetch or preload), the write of that response to the static
\* partition has completed when the handler returns.
C1_WrittenBeforeReturn ==
    \A t \in TaskIds :
        IsNav(t) /\ tasks[t].src \in {"net", "preload"} => tasks[t].bg = "stored"

\* C1 amended: a navigation answered by the live fetch returns that response
\* after opening the static partition and starting (not awaiting) the put of
\* the response under the request's key; a navigation answered by the preload
\* response starts no write.
C1_PutStartedBeforeReturn ==
    \A t \in TaskIds :
        IsNav(t) =>
            /\ tasks[t].src = "net" =>
                   /\ tasks[t].resp = tasks[t].net
                   /\ IsResponse(tasks[t].net)
                   /\ PutIssued(t)
                   /\ tasks[t].cache = STATIC_CACHE
                   /\ STATIC_CACHE \in cacheKeys
            /\ tasks[t].src = "preload" => tasks[t].bg = "none"

\* C1 witness: a navigation has returned the live response while its put is
\* still pending and the partition holds no entry for the request.
C1_Witness ==
    \E t \in TaskIds :
        /\ IsNav(t) /\ tasks[t].src = "net" /\ tasks[t].bg = "put"
        /\ CacheMatch(STATIC_CACHE, Key(tasks[t].req)) = NoResp

\* C2 as stated: a navigation whose preload and live fetch failed returns
\* the cached shell with status 200 when the static partition holds one, and
\* a response of status 503 when it holds none.
C2_OfflineShell200Else503 ==
    \A t \in TaskIds :
        IsNav(t) /\ Answered(t) /\ tasks[t].src \in {"fallback", "synthetic"} =>
            /\ tasks[t].src = "fallback" =>
                   tasks[t].resp = tasks[t].cached /\ tasks[t].resp.status = 200
            /\ tasks[t].src = "synthetic" => tasks[t].resp.status = 503

\* C3: when the activate handler completes, the partitions that exist are
\* exactly those that existed at its start and bear the current static or
\* font name.
C3_ActivateLeavesCurrentOnly ==
    (state = "activating" /\ apc = "done") =>
        cacheKeys = keys \cap {STATIC_CACHE, FONTS_CACHE}

\* C3 witness: the handler has completed after deleting stale partitions,
\* with both current partitions present at its start and kept.
C3_Witness ==
    /\ state = "activating" /\ apc = "done"
    /\ keys \cap StaleCaches # {}
    /\ {STATIC_CACHE, FONTS_CACHE} \subseteq keys

\* An asset's fetch succeeded: it produced an ok (or opaque) response; a
\* rejection and an error status are its failures.
AssetSucceeded(i) == Storable(asset[i].res)

\* C4: whatever subset of the core assets fails, the install handler is never
\* stopped (a step of it stays possible until the worker is installed), and
\* once installed every asset has been attempted and the static partition
\* holds the response of exactly the assets whose fetch succeeded and nothing
\* for the others.
C4_InstallStoresExactlySucceeded ==
    /\ state = "installing" =>
           ENABLED (InstallOpen \/ InstallFinish
                       \/ \E i \in CoreIdx : AssetFetch(i) \/ AssetPut(i))
    /\ state = "installed" =>
        /\ STATIC_CACHE \in cacheKeys
        /\ \A i \in CoreIdx :
               /\ asset[i].st = "done" /\ asset[i].res # NoResp
               /\ AssetSucceeded(i) =>
                      CacheMatch(STATIC_CACHE, CoreKey(i)) = asset[i].res
               /\ ~AssetSucceeded(i) =>
                      CacheMatch(STATIC_CACHE, CoreKey(i)) = NoResp

\* C4 witness: install has completed with one asset rejected, one answered
\* with an error status and one stored.
C4_Witness ==
    /\ state = "installed"
    /\ \E i, j, k \in CoreIdx :
           /\ asset[i].res = Rejected
           /\ asset[j].res.status = 404
           /\ AssetSucceeded(k) /\ CacheMatch(STATIC_CACHE, CoreKey(k)) # NoResp

IsRevalidating(t) == IsCacheFirst(t) /\ tasks[t].revalidate

\* C5 as stated: once a first call for a static asset has been answered,
\* every later call for the same request is answered with the cached value.
C5_LaterCallsFromCache ==
    \A t \in TaskIds :
        IsRevalidating(t) /\ tasks[t].prior /\ Answered(t) => tasks[t].src = "cache"

\* the put of task t completes in this step
PutCompletes(t) == tasks[t].bg = "put" /\ tasks'[t].bg = "stored"
\* the background fetch of task t settles in this step
BackgroundSettles(t) == tasks[t].bg = "fetch" /\ tasks'[t].bg # "fetch"

\* C5 amended: a call for a static asset made when the static partition holds
\* an entry for it is answered with a cached response whatever the network
\* does; a background revalidation that returns an ok or opaque response
\* starts a put, and when the put completes the entry is that response.
C5_CachedOnceStored ==
    [][ \A t \in TaskIds :
            (tasks'[t].strat = "cacheFirst" /\ tasks'[t].revalidate) =>
                /\ (tasks'[t].hadEntry /\ tasks'[t].resp # NoResp) =>
                       /\ tasks'[t].src = "cache"
                       /\ tasks'[t].resp = tasks'[t].cached
                       /\ Storable(tasks'[t].resp)
                /\ BackgroundSettles(t) =>
                       (Storable(tasks'[t].net) <=> tasks'[t].bg = "put")
                /\ PutCompletes(t) =>
                       /\ Storable(tasks[t].net)
                       /\ store'[STATIC_CACHE][Key(tasks[t].req)] = tasks[t].net
      ]_vars

\* C5 witness: a later call was answered from the cache, its revalidation
\* returned another response, and the entry is now that response.
C5_Witness ==
    \E t \in TaskIds :
        /\ IsRevalidating(t) /\ tasks[t].hadEntry /\ tasks[t].src = "cache"
        /\ tasks[t].bg = "stored"
        /\ tasks[t].net # tasks[t].cached
        /\ CacheMatch(STATIC_CACHE, Key(tasks[t].req)) = tasks[t].net

\* C6 as stated: a stale-while-revalidate call that found no entry returns
\* the live network response, and once its work is over the font partition
\* has been given that response.
C6_MissReturnsAndStoresLive ==
    \A t \in TaskIds :
        IsSwr(t) /\ ~Hit(t) /\ Answered(t) /\ tasks[t].bg # "put" =>
            /\ IsResponse(tasks[t].resp)
            /\ tasks[t].resp = tasks[t].net
            /\ tasks[t].bg = "stored"

\* C6 amended: on a miss, a response of the first fetch is what is returned;
\* it is put (started before the return, not awaited) exactly when it is ok
\* or opaque, and the font partition holds it when the put completes.  When
\* the first fetch fails, the outcome of a second fetch is returned and
\* nothing is stored.
C6_MissReturnsLiveStoresIfOk ==
    [][ \A t \in TaskIds :
            (tasks'[t].strat = "staleWhileRevalidate" /\ tasks'[t].cached = NoResp) =>
                /\ (tasks'[t].resp # NoResp /\ tasks'[t].net # Rejected) =>
                       /\ tasks'[t].resp = tasks'[t].net
                       /\ IsResponse(tasks'[t].net)
                       /\ Storable(tasks'[t].net) <=> tasks'[t].bg \in {"put", "stored"}
                /\ (tasks'[t].resp # NoResp /\ tasks'[t].net = Rejected) =>
                       /\ tasks'[t].resp = tasks'[t].net2
                       /\ tasks'[t].bg = "none"
                /\ PutCompletes(t) =>
                       store'[FONTS_CACHE][Key(tasks[t].req)] = tasks[t].resp
      ]_vars

\* C6 witness: a miss was answered with the live response and the font
\* partition holds it under the request's key.
C6_Witness ==
    \E t \in TaskIds :
        /\ IsSwr(t) /\ ~Hit(t) /\ tasks[t].src = "net" /\ tasks[t].bg = "stored"
        /\ CacheMatch(FONTS_CACHE, Key(tasks[t].req)) = tasks[t].resp

\* the paths of AllPaths that end in one of the static-asset extensions,
\* in any letter case
StaticAssetPaths == { <<"/manifest", "json">>, <<"/APP", "JS">>, <<"/s/inter", "woff2">> }

\* C7: every dispatched request got the strategy, partition and options of
\* the first rule it matches, in the order navigate, webfont CSS origin,
\* webfont binary origin, same-origin static asset, pass-through.
C7_FirstMatchingRule ==
    \A t \in TaskIds :
        tasks[t].pc # "idle" =>
            LET r == tasks[t].req
                k == tasks[t]
                nav == r.mode = "navigate"
                css == r.origin = "https://fonts.googleapis.com"
                bin == r.origin = "https://fonts.gstatic.com"
                asset4 == r.origin = SELF_ORIGIN /\ r.path \in StaticAssetPaths
            IN  /\ nav =>
                    /\ k.strat = "networkFirstHTML" /\ k.cache = STATIC_CACHE
                    /\ k.pc = "preload"
                /\ (~nav /\ css) =>
                    /\ k.strat = "staleWhileRevalidate" /\ k.cache = FONTS_CACHE
                    /\ k.pc = "open"
                /\ (~nav /\ ~css /\ bin) =>
                    /\ k.strat = "cacheFirst" /\ k.cache = FONTS_CACHE
                    /\ ~k.revalidate /\ k.pc = "open"
                /\ (~nav /\ ~css /\ ~bin /\ asset4) =>
                    /\ k.strat = "cacheFirst" /\ k.cache = STATIC_CACHE
                    /\ k.revalidate /\ k.pc = "open"
                /\ (~nav /\ ~css /\ ~bin /\ ~asset4) =>
                    /\ k.strat = "passThrough" /\ k.resp = PassThrough
                    /\ k.pc = "done"

\* C7 witness: a navigation to the webfont CSS origin and a navigation to a
\* same-origin .json path have both been dispatched.
C7_Witness ==
    \E t, u \in TaskIds :
        /\ tasks[t].req = Req("navigate", FONTS_CSS_ORIGIN, <<"/s/inter", "woff2">>)
        /\ tasks[u].req = Req("navigate", SELF_ORIGIN, <<"/manifest", "json">>)
        /\ IsNav(t) /\ IsNav(u)

\* C8 as stated: a SKIP_WAITING message that reaches the waiting worker makes
\* the worker request its activation.
C8_MessageTriggersActivation ==
    skipMsgSeen => "message" \in skipWaitingBy

\* C8 amended: no message is handled; it is the install handler that has
\* called skipWaiting() by the time the worker is installed, so that the
\* worker is activated without waiting for the old pages to close, message
\* or no message.
C8_InstallRequestsActivation ==
    /\ state # "installing" => skipWaitingBy = {"install"}
    /\ state = "installing" => skipWaitingBy = {}

\* C8 witness: the worker is activating while pages of the previous version
\* are still open, and no SKIP_WAITING message was sent.
C8_Witness == state = "activating" /\ oldClients /\ ~skipMsgSeen

\* C9: cacheFirst and staleWhileRevalidate answer with the cached response
\* whenever they found one, whatever the network did afterwards; when they
\* found none, the caller gets a failure exactly when the live fetch failed
\* (for staleWhileRevalidate, the first fetch and then the second).
C9_FailureOnlyWithoutEntry ==
    \A t \in TaskIds :
        ((IsCacheFirst(t) \/ IsSwr(t)) /\ Answered(t)) =>
            /\ Hit(t) => tasks[t].resp = tasks[t].cached /\ IsResponse(tasks[t].resp)
            /\ (~Hit(t) /\ IsCacheFirst(t)) =>
                   /\ tasks[t].resp = Rejected <=> tasks[t].net = Rejected
                   /\ tasks[t].net2 = NoResp
            /\ (~Hit(t) /\ IsSwr(t)) =>
                   (tasks[t].resp = Rejected <=>
                        (tasks[t].net = Rejected /\ tasks[t].net2 = Rejected))

\* C9 witness: a cached response was returned and the background fetch then
\* failed; a miss was answered with the failure of its fetches.
C9_Witness ==
    /\ \E t \in TaskIds :
           /\ (IsCacheFirst(t) \/ IsSwr(t)) /\ Hit(t)
           /\ tasks[t].net = Rejected /\ tasks[t].resp = tasks[t].cached
    /\ \E t \in TaskIds :
           IsSwr(t) /\ ~Hit(t) /\ tasks[t].resp = Rejected

\* C10 as stated: on a cacheFirst miss the live response is returned, and
\* its copy is in the partition when it is returned exactly when it is ok or
\* opaque.
C10_StoredBeforeReturnIffOk ==
    \A t \in TaskIds :
        (IsCacheFirst(t) /\ ~Hit(t) /\ IsResponse(tasks[t].resp)) =>
            /\ tasks[t].resp = tasks[t].net
            /\ Storable(tasks[t].resp) <=> tasks[t].bg = "stored"

\* C10 amended: on a cacheFirst miss every response of the live fetch is
\* returned; a put of its copy is started (not awaited) before the return
\* exactly when it is ok or opaque, and the partition holds the copy when the
\* put completes; for any other response no write is made.
C10_PutStartedIffOk ==
    [][ /\ \A t \in TaskIds :
               (tasks'[t].strat = "cacheFirst" /\ tasks'[t].cached = NoResp) =>
                   /\ tasks'[t].net # NoResp => tasks'[t].resp = tasks'[t].net
                   /\ IsResponse(tasks'[t].resp) =>
                          /\ Storable(tasks'[t].resp) => tasks'[t].bg \in {"put", "stored"}
                          /\ ~Storable(tasks'[t].resp) => tasks'[t].bg = "none"
                   /\ PutCompletes(t) =>
                          store'[tasks[t].cache][Key(tasks[t].req)] = tasks[t].resp
        /\ (state = "activated" /\ \A u \in TaskIds : ~PutCompletes(u)) =>
               store' = store
      ]_vars

\* C10 witness: a miss returned an error response and made no write, and a
\* miss returned an opaque response whose put is pending.
C10_Witness ==
    /\ \E t \in TaskIds :
           /\ IsCacheFirst(t) /\ ~Hit(t) /\ tasks[t].resp.status = 404
           /\ tasks[t].bg = "none"
           /\ CacheMatch(tasks[t].cache, Key(tasks[t].req)) = NoResp
    /\ \E t \in TaskIds :
           /\ IsCacheFirst(t) /\ ~Hit(t) /\ tasks[t].resp.type = "opaque"
           /\ tasks[t].bg = "put"

\* C11: when the partition holds an entry for the request, cacheFirst and
\* staleWhileRevalidate deliver that entry in the very step in which
\* cache.match resolves: no outcome of the network has been received by then,
\* the background fetch (always started by staleWhileRevalidate, started by
\* cacheFirst when revalidate is set) is still pending in that state, and the
\* delivered response stays the cached value whatever becomes of that fetch.
C11_HitReturnsWithoutNetwork ==
    [][ \A t \in TaskIds :
            /\ ( /\ tasks[t].pc = "match"
                 /\ tasks'[t] # tasks[t]
                 /\ CacheMatch(tasks[t].cache, Key(tasks[t].req)) # NoResp ) =>
                   /\ tasks'[t].resp = CacheMatch(tasks[t].cache, Key(tasks[t].req))
                   /\ tasks'[t].pc = "done"
                   /\ tasks'[t].net = NoResp
                   /\ (tasks[t].strat = "staleWhileRevalidate" \/ tasks[t].revalidate)
                          => tasks'[t].bg = "fetch"
            /\ ( /\ tasks'[t].strat \in {"cacheFirst", "staleWhileRevalidate"}
                 /\ tasks'[t].cached # NoResp ) =>
                   tasks'[t].resp = tasks'[t].cached
      ]_vars

\* C11 witness: a staleWhileRevalidate call found the entry an earlier call
\* had stored and has delivered it while its own fetch is still pending.
C11_Witness ==
    \E t \in TaskIds :
        /\ IsSwr(t) /\ Hit(t) /\ tasks[t].resp = tasks[t].cached
        /\ tasks[t].pc = "done" /\ tasks[t].bg = "fetch" /\ tasks[t].net = NoResp

\* C12 as stated: once the write started by a navigation that was answered
\* from the network has completed, the entry the offline fallback reads
\* (INDEX_HTML in the static partition) is the response of that navigation,
\* whatever URL was navigated.
C12_NavigationRefreshesShell ==
    [][ \A t \in TaskIds :
            (IsNav(t) /\ PutCompletes(t)) =>
                store'[STATIC_CACHE][ShellKey] = tasks[t].resp
      ]_vars

\* C13: a navigation whose preload response is available is answered with
\* exactly that response and has called fetch() not once; a navigation that
\* has called fetch() is one whose preload resolved with no response (a
\* rejected preload goes to the fallback without a live fetch).
C13_PreloadReturnedWithoutFetch ==
    \A t \in TaskIds :
        IsNav(t) =>
            /\ IsResponse(tasks[t].pre) =>
                   /\ tasks[t].resp = tasks[t].pre
                   /\ tasks[t].src = "preload"
                   /\ tasks[t].pc = "done"
                   /\ tasks[t].nfetch = 0
                   /\ tasks[t].net = NoResp
            /\ (tasks[t].nfetch > 0 \/ tasks[t].net # NoResp) =>
                   /\ tasks[t].pre = NoResp
                   /\ tasks[t].pc # "preload"
            /\ tasks[t].pre = Rejected => tasks[t].nfetch = 0

\* C13 witness: one navigation was answered with its preload response without
\* a live fetch, and another, whose preload resolved with no response, has
\* fetched.
C13_Witness ==
    /\ \E t \in TaskIds :
           /\ IsNav(t) /\ IsResponse(tasks[t].pre)
           /\ tasks[t].resp = tasks[t].pre /\ tasks[t].nfetch = 0
    /\ \E t \in TaskIds :
           /\ IsNav(t) /\ tasks[t].pre = NoResp /\ tasks[t].nfetch = 1
           /\ IsResponse(tasks[t].net)

\* C14 as stated: within the handling of one intercepted request every
\* strategy calls fetch() at most once.
C14_AtMostOneFetch ==
    \A t \in TaskIds : tasks[t].nfetch <= 1

\* C14 amended: networkFirstHTML and cacheFirst call fetch() at most once per
\* intercepted request; after a failed fetch networkFirstHTML goes to the
\* cached shell or the synthetic 503 and cacheFirst passes the failure on.
\* staleWhileRevalidate calls fetch() once, and a second and last time
\* exactly when it found no entry and the first fetch failed; the outcome of
\* the second fetch is what it returns.
C14_OneFetchTwoForSwrMiss ==
    \A t \in TaskIds :
        /\ (IsNav(t) \/ IsCacheFirst(t)) => tasks[t].nfetch <= 1
        /\ (IsNav(t) /\ tasks[t].net = Rejected) =>
               /\ tasks[t].pc \in {"catchOpen", "catchMatch", "done"}
               /\ tasks[t].pc = "done" => tasks[t].src \in {"fallback", "synthetic"}
        /\ (IsCacheFirst(t) /\ ~Hit(t) /\ tasks[t].net = Rejected) =>
               tasks[t].resp = Rejected
        /\ IsSwr(t) =>
               /\ tasks[t].nfetch <= 2
               /\ tasks[t].nfetch = 2 <=> (~Hit(t) /\ tasks[t].net = Rejected)
               /\ tasks[t].nfetch = 2 => tasks[t].pc \in {"final", "done"}
               /\ (tasks[t].nfetch = 2 /\ tasks[t].pc = "done") =>
                      tasks[t].resp = tasks[t].net2 /\ tasks[t].src = "final"

\* C14 witness: a staleWhileRevalidate miss has fetched twice and returned
\* the outcome of the second fetch, and a navigation whose single fetch
\* failed was answered from the fallback tier.
C14_Witness ==
    /\ \E t \in TaskIds :
           /\ IsSwr(t) /\ tasks[t].nfetch = 2 /\ tasks[t].pc = "done"
           /\ IsResponse(tasks[t].resp)
    /\ \E t \in TaskIds :
           /\ IsNav(t) /\ tasks[t].net = Rejected /\ tasks[t].nfetch = 1
           /\ tasks[t].pc = "done"

\* C15: when the background fetch of a call that returned the cached value
\* settles, no entry changes and the response the caller got stays what it
\* was; a put is started exactly when the fetch returned an ok or opaque
\* response, and after a failure or any other response the call does nothing
\* more.  The write such a call completes is that of an ok or opaque
\* response, under the key of its request.
C15_FailedRevalidationLeavesEntry ==
    [][ \A t \in TaskIds :
            /\ (Hit(t) /\ ~IsNav(t)) => tasks'[t].resp = tasks[t].resp
            /\ BackgroundSettles(t) =>
                   /\ store' = store
                   /\ Storable(tasks'[t].net) <=> tasks'[t].bg = "put"
                   /\ ~Storable(tasks'[t].net) => tasks'[t].bg = "dropped"
            /\ tasks[t].bg = "dropped" => tasks'[t] = tasks[t]
            /\ (Hit(t) /\ ~IsNav(t) /\ PutCompletes(t)) =>
                   /\ Storable(tasks[t].net)
                   /\ store' = [store EXCEPT
                                   ![tasks[t].cache][Key(tasks[t].req)] = tasks[t].net]
      ]_vars

\* C15 witness: the revalidation of a call that returned the cached value
\* came back with an error response, nothing was written, and the entry is
\* still the value the caller got.
C15_Witness ==
    \E t \in TaskIds :
        /\ ~IsNav(t) /\ Hit(t) /\ tasks[t].bg = "dropped"
        /\ tasks[t].net.status = 404
        /\ tasks[t].resp = tasks[t].cached
        /\ CacheMatch(tasks[t].cache, Key(tasks[t].req)) = tasks[t].cached

\* C16: from the moment the activate handler has passed the await of the
\* deletes (it is about to claim the pages, has claimed them, or has reloaded
\* them), and so whenever the worker controls a page or handles a fetch
\* event, no delete is pending and no stale partition exists.
C16_DeletesBeforeClaim ==
    ( \/ apc \in {"claim", "reload", "done"}
      \/ controlled
      \/ state = "activated"
      \/ \E t \in TaskIds : tasks[t].pc # "idle" ) =>
        /\ pendingDeletes = {}
        /\ cacheKeys \subseteq CurrentCaches

\* C16 witness: the worker has claimed the pages and is about to reload them;
\* caches.keys() had listed a stale partition, and none exists any more.
C16_Witness ==
    /\ state = "activating" /\ apc = "reload" /\ controlled
    /\ keys \cap StaleCaches # {}
    /\ cacheKeys \cap StaleCaches = {}

StateRank(s) ==
    CASE s = "installing" -> 0
      [] s = "installed" -> 1
      [] s = "activating" -> 2
      [] s = "activated" -> 3

\* C18: the worker's state only moves forward, one stage at a time, through
\* installing, installed, activating, activated, and stays activated;
\* skipWaiting() is called only when every core-asset attempt has settled;
\* and under a host that keeps taking its steps the worker ends up activated
\* and in control of the open pages, whatever the core-asset fetches return
\* and whether or not a page sends a message or closes.
C18_ForwardAndEventuallyActivated ==
    /\ [][ /\ StateRank(state') \in {StateRank(state), StateRank(state) + 1}
           /\ state = "activated" => state' = "activated"
           /\ skipWaitingBy' # skipWaitingBy =>
                  /\ state = "installing"
                  /\ \A i \in CoreIdx : asset[i].st = "done"
         ]_vars
    /\ <>[](state = "activated" /\ controlled)

\* C18 witness: the worker is activated and controls the pages although every
\* core-asset fetch failed (the static partition holds no entry) and no page
\* sent a SKIP_WAITING message.
C18_Witness ==
    /\ state = "activated" /\ controlled
    /\ ~skipMsgSeen
    /\ skipWaitingBy = {"install"}
    /\ \A i \in CoreIdx : CacheMatch(STATIC_CACHE, CoreKey(i)) = NoResp

\* the partition name exists / its entries are the same before and after
\* the step
PartitionUntouched(name) ==
    /\ store'[name] = store[name]
    /\ name \in cacheKeys' <=> name \in cacheKeys
IsFontRequest(req) ==
    req.mode # "navigate" /\ req.origin \in {FONTS_CSS_ORIGIN, FONTS_BIN_ORIGIN}
IsStaticRequest(req) ==
    \/ req.mode = "navigate"
    \/ /\ req.origin = SELF_ORIGIN /\ IsStaticPath(req.path)

\* C19 as stated: every entry of the static partition and of the font
\* partition is a response that was ok or opaque when it was stored.
C19_OnlyOkOrOpaqueStored ==
    \A n \in CurrentCaches : \A k \in Keys :
        store[n][k] # NoResp => Storable(store[n][k])

\* C20: every step of the handling of a request, its dispatch included,
\* leaves alone the partition its class is not assigned to: a navigation or a
\* same-origin static asset the font partition, a webfont CSS or binary
\* request the static partition.  A request of no class is handed back at
\* dispatch: no partition is opened, read or written, the worker fetches
\* nothing, supplies no response, and takes no further step for it.
C20_OtherPartitionUntouched ==
    [][ \A t \in TaskIds :
            tasks'[t] # tasks[t] =>
                LET req == tasks'[t].req IN
                /\ IsStaticRequest(req) => PartitionUntouched(FONTS_CACHE)
                /\ IsFontRequest(req) => PartitionUntouched(STATIC_CACHE)
                /\ (~IsStaticRequest(req) /\ ~IsFontRequest(req)) =>
                       /\ store' = store
                       /\ cacheKeys' = cacheKeys
                       /\ tasks[t].pc = "idle"
                       /\ tasks'[t].pc = "done"
                       /\ tasks'[t].resp = PassThrough
                       /\ tasks'[t].cached = NoResp
                       /\ tasks'[t].nfetch = 0
                       /\ tasks'[t].net = NoResp
                       /\ tasks'[t].bg = "none"
      ]_vars

\* C20 witness: a request of no class was handed back to the browser, and a
\* webfont request has written its response to the font partition while the
\* static partition holds what install stored.
C20_Witness ==
    /\ \E t \in TaskIds :
           /\ tasks[t].strat = "passThrough" /\ tasks[t].resp = PassThrough
    /\ \E t \in TaskIds :
           /\ IsFontRequest(tasks[t].req) /\ tasks[t].bg = "stored"
           /\ CacheMatch(FONTS_CACHE, Key(tasks[t].req)) = tasks[t].net
           /\ FONTS_CACHE \in cacheKeys

====
